---------------------------- MODULE Spec2Model ----------------------------
(***************************************************************************)
(* A model of the GitHub issue triage server (main.go): the HTTP handler   *)
(* handleProcessError, the two tool executors searchGithubIssues and       *)
(* createGithubIssues, and the text scan that turns the agent's final      *)
(* answer into the JSON response.                                          *)
(*                                                                         *)
(* Go strings are modelled as sequences of one-character strings, so that  *)
(* strings.Contains, strings.Index, strings.IndexAny, strings.TrimSpace    *)
(* and slicing are computed character by character, as the code does.      *)
(* Indexes are 0-based as in Go; -1 means "not found".                     *)
(*                                                                         *)
(* The reasoning engine, the swarmlet pipeline loop and the GitHub API are *)
(* external: the engine's decisions and the gateway's answers are          *)
(* nondeterministic choices.                                               *)
(***************************************************************************)
EXTENDS Integers, Sequences, FiniteSets, TLC

VARIABLES
    req,            \* the request: its body's kind and what Decode made of it
    pc,             \* position of the handler's goroutine
    resp,           \* what was written to the http.ResponseWriter
    runId,          \* the run id given to llmPipeline.Run
    finalOutput,    \* what llmPipeline.Run returned
    inv,            \* the tool invocation being executed / executed last
    gw,             \* the GitHub API call in flight
    cancelled,      \* r.Context() is done
    fault,          \* the run-time panic that ended the goroutine, if any
    engineRuns,     \* decisions taken by the reasoning engine
    nInvocations,   \* tool invocations dispatched in the session
    nSearchCalls,   \* ghClient.Search.Issues calls started
    nCreateCalls,   \* ghClient.Issues.Create calls started
    nSearchTyped,   \* search invocations whose query is a string
    nCreateTyped,   \* create invocations whose title and body are strings
    nGatewayErrors, \* gateway calls that returned an error
    firstTool,      \* the tool of the session's first invocation
    searchMatched,  \* a search of the session returned one or more matches
    createAfterMatch \* a create call was started after such a search

vars == <<req, pc, resp, runId, finalOutput, inv, gw, cancelled, fault,
          engineRuns, nInvocations, nSearchCalls, nCreateCalls, nSearchTyped,
          nCreateTyped, nGatewayErrors, firstTool, searchMatched, createAfterMatch>>

---------------------------------------------------------------------------
(* Bounds of the model. *)

\* The longest error log tried, in bytes.
MaxLogLen == 11
\* Tool invocations the engine may issue in one session.
MaxCycles == 3
\* Free segments appended to a final answer in the answers tried by SynthSpec.
MaxSegs == 4

(* Program constants. *)

\* req.ErrorLog[:10]
RunIdLen == 10
\* finalOutput[idx+5:]
UrlTagLen == 5
StatusOK == 200
StatusBadRequest == 400
StatusInternalServerError == 500

---------------------------------------------------------------------------
(* String literals of the program, as character sequences. *)

CreatedMarker ==
    <<"G","i","t","H","u","b"," ","i","s","s","u","e"," ","c","r","e","a","t","e","d"," ","s","u","c","c","e","s","s","f","u","l","l","y","!">>
FoundMarker ==
    <<"F","o","u","n","d"," ","e","x","i","s","t","i","n","g"," ","i","s","s","u","e","s",":">>
UrlTag ==
    <<"U","R","L",":"," ">>
NoIssuesText ==
    <<"N","o"," ","e","x","i","s","t","i","n","g"," ","i","s","s","u","e","s"," ","f","o","u","n","d"," ","f","o","r"," ","t","h","i","s"," ","q","u","e","r","y",".">>
SearchErrPrefix ==
    <<"E","r","r","o","r"," ","s","e","a","r","c","h","i","n","g"," ","G","i","t","H","u","b"," ","i","s","s","u","e","s",":"," ">>
CreateErrPrefix ==
    <<"E","r","r","o","r"," ","c","r","e","a","t","i","n","g"," ","G","i","t","H","u","b"," ","i","s","s","u","e",":"," ">>
MatchPrefix ==
    <<"-"," ","T","i","t","l","e",":"," ","\"">>
MatchMiddle ==
    <<"\"",","," ","U","R","L",":"," ">>
FoundPrefix ==
    <<"F","o","u","n","d"," ">>
FoundSuffix ==
    <<" ","e","x","i","s","t","i","n","g"," ","i","s","s","u","e","s",":","\n">>
CreatedPrefix ==
    <<"G","i","t","H","u","b"," ","i","s","s","u","e"," ","c","r","e","a","t","e","d"," ","s","u","c","c","e","s","s","f","u","l","l","y","!"," ","T","i","t","l","e",":"," ","\"">>
CreatedMiddle ==
    <<"\"",","," ","U","R","L",":"," ">>
RunIdPrefix ==
    <<"r","u","n","-","i","d">>
SearchQualifiers ==
    <<" ","i","s",":","i","s","s","u","e"," ","i","n",":","t","i","t","l","e",",","b","o","d","y"," ","r","e","p","o",":","o","/","r">>
QueryErrMsg ==
    <<"m","i","s","s","i","n","g"," ","o","r"," ","i","n","v","a","l","i","d"," ","'","q","u","e","r","y","'"," ","a","r","g","u","m","e","n","t"," ","f","o","r"," ","s","e","a","r","c","h","_","g","i","t","h","u","b","_","i","s","s","u","e","s">>
TitleErrMsg ==
    <<"m","i","s","s","i","n","g"," ","o","r"," ","i","n","v","a","l","i","d"," ","'","t","i","t","l","e","'"," ","a","r","g","u","m","e","n","t"," ","f","o","r"," ","c","r","e","a","t","e","_","g","i","t","h","u","b","_","i","s","s","u","e">>
BodyErrMsg ==
    <<"m","i","s","s","i","n","g"," ","o","r"," ","i","n","v","a","l","i","d"," ","'","b","o","d","y","'"," ","a","r","g","u","m","e","n","t"," ","f","o","r"," ","c","r","e","a","t","e","_","g","i","t","h","u","b","_","i","s","s","u","e">>
\* The tool's enumerated labels.
EnumLabels == {"bug", "llm created", "enhancement"}

(* Values of the environment used in the runs. *)

UpstreamErrMsg ==
    <<"4","0","1"," ","B","a","d"," ","c","r","e","d","e","n","t","i","a","l","s">>
Url42 ==
    <<"h","t","t","p","s",":","/","/","x","/","4","2">>
Url7 ==
    <<"h","t","t","p","s",":","/","/","x","/","7">>
TitleT ==
    <<"B","u","g",":"," ","n","i","l"," ","p","o","i","n","t","e","r">>
BodyB ==
    <<"p","a","n","i","c">>
QueryQ ==
    <<"n","i","l">>
PlainAnswer ==
    <<"U","n","a","b","l","e"," ","t","o"," ","t","r","i","a","g","e",".">>
FoundOne ==
    <<"F","o","u","n","d"," ","1"," ","e","x","i","s","t","i","n","g"," ","i","s","s","u","e","s",":">>

---------------------------------------------------------------------------
(* Go's string operations. *)

MinOf(S) == CHOOSE x \in S : \A y \in S : x <= y

\* s[lo:hi]
Slice(s, lo, hi) == SubSeq(s, lo + 1, hi)
\* s[lo:]
SliceFrom(s, lo) == SubSeq(s, lo + 1, Len(s))
\* s[:hi] panics (slice bounds out of range) when hi > len(s)
SlicePanics(s, hi) == hi > Len(s)

\* strings.Index
Index(s, sub) ==
    LET hits == {i \in 0..(Len(s) - Len(sub)) : SubSeq(s, i + 1, i + Len(sub)) = sub}
    IN  IF hits = {} THEN -1 ELSE MinOf(hits)

\* strings.Contains
Contains(s, sub) == Index(s, sub) # -1

\* strings.IndexAny
IndexAny(s, chars) ==
    LET hits == {i \in 0..(Len(s) - 1) : s[i + 1] \in chars}
    IN  IF hits = {} THEN -1 ELSE MinOf(hits)

\* The white space of unicode.IsSpace that a one-byte character can be.
WhiteSpace == {" ", "\t", "\n", "\r", "\f"}

\* strings.TrimSpace
TrimSpace(s) ==
    LET keep == {i \in 1..Len(s) : s[i] \notin WhiteSpace}
    IN  IF keep = {} THEN <<>>
        ELSE SubSeq(s, MinOf(keep), CHOOSE x \in keep : \A y \in keep : y <= x)

\* strings.Join
RECURSIVE Join(_, _)
Join(elems, sep) ==
    IF elems = <<>> THEN <<>>
    ELSE IF Len(elems) = 1 THEN elems[1]
    ELSE elems[1] \o sep \o Join(Tail(elems), sep)

DigitChars == <<"0","1","2","3","4","5","6","7","8","9">>

\* fmt's %d of a non-negative int
RECURSIVE Itoa(_)
Itoa(n) ==
    IF n < 10 THEN <<DigitChars[n + 1]>>
    ELSE Itoa(n \div 10) \o <<DigitChars[(n % 10) + 1]>>

---------------------------------------------------------------------------
(* Values. *)

\* A Go error: nil, or an error with a message.
NilErr == [nil |-> TRUE, msg |-> <<>>]
Err(m) == [nil |-> FALSE, msg |-> m]

\* A *string of go-github: nil, or a pointer to a string.
NilPtr == [nil |-> TRUE, v |-> <<>>]
Ptr(s) == [nil |-> FALSE, v |-> s]

\* A value of the args map (map[string]any): absent, a JSON number, a string,
\* or an array whose elements are strings or numbers.
Absent == [t |-> "absent", s |-> <<>>, a |-> <<>>]
Num == [t |-> "number", s |-> <<>>, a |-> <<>>]
Str(s) == [t |-> "string", s |-> s, a |-> <<>>]
Arr(a) == [t |-> "array", s |-> <<>>, a |-> a]
\* Elements of an array argument.
LStr(l) == [str |-> TRUE, s |-> l]
LNum == [str |-> FALSE, s |-> "7"]

NoArgs == [query |-> Absent, title |-> Absent, body |-> Absent, labels |-> Absent]
NoInv == [tool |-> "none", args |-> NoArgs, gwCalled |-> FALSE, done |-> FALSE,
          text |-> <<>>, err |-> NilErr, issues |-> <<>>]
NoGw == [op |-> "none", query |-> <<>>, title |-> <<>>, body |-> <<>>,
         labels |-> <<>>, ctx |-> "none", afterCancel |-> FALSE]
NoResp == [code |-> 0, kind |-> "none", text |-> "", Status |-> "",
           Message |-> <<>>, IssueURL |-> <<>>]

---------------------------------------------------------------------------
(* handleProcessError: the request checks and the run id. *)

\* json.NewDecoder(r.Body).Decode(&req) on a body that is a syntax error, an
\* object whose error_log is not a string, an object without error_log, or
\* an object with the error_log given: the first two are errors, the third
\* leaves ErrorLog the empty string.
Decode(kind, log) ==
    [body |-> kind,
     ok |-> kind \in {"nofield", "object"},
     ErrorLog |-> IF kind = "object" THEN log ELSE <<>>]

\* A handler that forgets the check of the empty error log.
RequestAccepted_NoEmptyCheck(r) == r.ok

\* The handler goes on to the pipeline when the body decoded and the error
\* log is not the empty string.
RequestAccepted(r) == r.ok /\ r.ErrorLog # <<>>

\* "run-id" + req.ErrorLog[:10]
RunIdOf(log) == RunIdPrefix \o Slice(log, 0, RunIdLen)

\* http.Error(w, msg, code)
ErrorResponse(code, msg) ==
    [code |-> code, kind |-> "text", text |-> msg, Status |-> "",
     Message |-> <<>>, IssueURL |-> <<>>]

---------------------------------------------------------------------------
(* The response synthesizer: the scan of the final output. *)

\* The two places that cut the URL out of the output after "URL: ".
ExtractAfterUrlTag(out) ==
    LET idx == Index(out, UrlTag)
    IN  IF idx = -1 THEN <<>>
        ELSE LET endIdx == IndexAny(SliceFrom(out, idx + UrlTagLen), {" ", "\n"})
             IN  IF endIdx # -1
                 THEN TrimSpace(Slice(out, idx + UrlTagLen, idx + UrlTagLen + endIdx))
                 ELSE TrimSpace(SliceFrom(out, idx + UrlTagLen))

\* A scan that forgets the "Found existing issues:" branch.
IssueURLOf_CreatedOnly(out) ==
    IF Contains(out, CreatedMarker) THEN ExtractAfterUrlTag(out) ELSE <<>>

\* resp.IssueURL; the empty string is omitted from the JSON (omitempty).
IssueURLOf(out) ==
    IF Contains(out, CreatedMarker) THEN ExtractAfterUrlTag(out)
    ELSE IF Contains(out, FoundMarker) THEN ExtractAfterUrlTag(out)
    ELSE <<>>

\* The APIResponse encoded to the client.
SuccessResponse(out) ==
    [code |-> StatusOK, kind |-> "json", text |-> "", Status |-> "success",
     Message |-> out, IssueURL |-> IssueURLOf(out)]

---------------------------------------------------------------------------
(* searchGithubIssues. *)

\* The type assertion on args["query"] and the search query built from it.
searchGithubIssuesCheck(args) ==
    IF args.query.t # "string"
    THEN [ok |-> FALSE, err |-> Err(QueryErrMsg), query |-> <<>>]
    ELSE [ok |-> TRUE, err |-> NilErr, query |-> args.query.s \o SearchQualifiers]

\* One line per issue: - Title: "<title>", URL: <url>
RECURSIVE MatchLines(_)
MatchLines(issues) ==
    IF issues = <<>> THEN <<>>
    ELSE <<MatchPrefix \o issues[1].Title.v \o MatchMiddle \o issues[1].HTMLURL.v>>
         \o MatchLines(Tail(issues))

\* What the executor does with the answer of ghClient.Search.Issues.
\* *issue.Title and *issue.HTMLURL dereference pointers: a nil one panics.
searchGithubIssuesResult(res) ==
    IF ~res.err.nil
    THEN [panic |-> FALSE, text |-> SearchErrPrefix \o res.err.msg, err |-> res.err]
    ELSE IF Len(res.issues) = 0
    THEN [panic |-> FALSE, text |-> NoIssuesText, err |-> NilErr]
    ELSE IF \E i \in 1..Len(res.issues) :
                res.issues[i].Title.nil \/ res.issues[i].HTMLURL.nil
    THEN [panic |-> TRUE, text |-> <<>>, err |-> NilErr]
    ELSE [panic |-> FALSE,
          text |-> FoundPrefix \o Itoa(Len(res.issues)) \o FoundSuffix
                   \o Join(MatchLines(res.issues), <<"\n">>),
          err |-> NilErr]

---------------------------------------------------------------------------
(* createGithubIssues. *)

\* The strings among the elements of labelsRaw, in order.
RECURSIVE StringLabels(_)
StringLabels(raw) ==
    IF raw = <<>> THEN <<>>
    ELSE (IF raw[1].str THEN <<raw[1].s>> ELSE <<>>) \o StringLabels(Tail(raw))

\* args["labels"].([]any), or the empty list when that assertion fails.
LabelsRaw(args) == IF args.labels.t = "array" THEN args.labels.a ELSE <<>>

\* An executor that forgets the type assertion on args["body"].
createGithubIssuesCheck_BodyUnchecked(args) ==
    IF args.title.t # "string"
    THEN [ok |-> FALSE, err |-> Err(TitleErrMsg), title |-> <<>>, body |-> <<>>,
          labels |-> <<>>]
    ELSE [ok |-> TRUE, err |-> NilErr, title |-> args.title.s, body |-> args.body.s,
          labels |-> StringLabels(LabelsRaw(args))]

\* An executor that returns an error when args["labels"] is no array,
\* instead of going on with no labels.
createGithubIssuesCheck_LabelsRequired(args) ==
    IF args.title.t # "string" \/ args.body.t # "string" \/ args.labels.t # "array"
    THEN [ok |-> FALSE, err |-> Err(TitleErrMsg), title |-> <<>>, body |-> <<>>,
          labels |-> <<>>]
    ELSE [ok |-> TRUE, err |-> NilErr, title |-> args.title.s, body |-> args.body.s,
          labels |-> StringLabels(LabelsRaw(args))]

\* The type assertions on args["title"] and args["body"], and the
\* github.IssueRequest built from the arguments.
createGithubIssuesCheck(args) ==
    IF args.title.t # "string"
    THEN [ok |-> FALSE, err |-> Err(TitleErrMsg), title |-> <<>>, body |-> <<>>,
          labels |-> <<>>]
    ELSE IF args.body.t # "string"
    THEN [ok |-> FALSE, err |-> Err(BodyErrMsg), title |-> <<>>, body |-> <<>>,
          labels |-> <<>>]
    ELSE [ok |-> TRUE, err |-> NilErr, title |-> args.title.s, body |-> args.body.s,
          labels |-> StringLabels(LabelsRaw(args))]

\* What the executor does with the answer of ghClient.Issues.Create.
createGithubIssuesResult(res) ==
    IF ~res.err.nil
    THEN [panic |-> FALSE, text |-> CreateErrPrefix \o res.err.msg, err |-> res.err]
    ELSE IF res.issues[1].Title.nil \/ res.issues[1].HTMLURL.nil
    THEN [panic |-> TRUE, text |-> <<>>, err |-> NilErr]
    ELSE [panic |-> FALSE,
          text |-> CreatedPrefix \o res.issues[1].Title.v \o CreatedMiddle
                   \o res.issues[1].HTMLURL.v,
          err |-> NilErr]

\* The context given to the GitHub client by both executors.
ExecutorContext == "Background"

\* A context is done when it is the request's context and the request was
\* cancelled; context.Background() is never done.
CtxDone(ctx, isCancelled) == ctx = "request" /\ isCancelled

---------------------------------------------------------------------------
(* The environment: requests, the engine's choices, the gateway's answers. *)

RECURSIVE Bytes(_)
Bytes(n) == IF n = 0 THEN <<>> ELSE <<"p">> \o Bytes(n - 1)

\* Error logs of 0, 1, RunIdLen - 1, RunIdLen, ... MaxLogLen bytes.
LogLens == {0, 1, RunIdLen - 1} \cup (RunIdLen..MaxLogLen)
Requests ==
    {Decode(k, <<>>) : k \in {"syntax", "wrongtype", "nofield"}}
    \cup {Decode("object", Bytes(n)) : n \in LogLens}

SearchArgs == {[NoArgs EXCEPT !.query = q] : q \in {Str(QueryQ), Num}}

LabelArgs ==
    {Absent,
     Arr(<<LStr("bug"), LStr("typo-unlisted")>>),
     Arr(<<LNum, LStr("llm created")>>)}
CreateArgs ==
    {[NoArgs EXCEPT !.title = t, !.body = b, !.labels = l] :
        t \in {Absent, Num, Str(<<>>), Str(TitleT)},
        b \in {Absent, Str(<<>>), Str(BodyB)},
        l \in LabelArgs}

Issue(title, url) == [Title |-> title, HTMLURL |-> url]
GwErr == [err |-> Err(UpstreamErrMsg), issues |-> <<>>]
GwOk(issues) == [err |-> NilErr, issues |-> issues]

\* Answers of ghClient.Search.Issues.
SearchAnswers ==
    {GwErr, GwOk(<<>>), GwOk(<<Issue(Ptr(TitleT), Ptr(Url42))>>),
     GwOk(<<Issue(Ptr(TitleT), Ptr(Url7)), Issue(Ptr(BodyB), Ptr(Url42))>>),
     GwOk(<<Issue(NilPtr, Ptr(Url42))>>),
     GwOk(<<Issue(Ptr(TitleT), Ptr(Url42)), Issue(Ptr(BodyB), NilPtr)>>)}

\* Answers of ghClient.Issues.Create to a request with the given title.
CreateAnswers(title) ==
    {GwErr, GwOk(<<Issue(Ptr(title), Ptr(Url42))>>), GwOk(<<Issue(Ptr(title), NilPtr)>>)}

\* The text of a tool result as the engine gets it: the executor's text, or
\* the error's message when the executor returned no text with its error.
DeliveredText(i) ==
    IF i.text # <<>> THEN i.text
    ELSE IF ~i.err.nil THEN i.err.msg ELSE <<>>

\* Final answers of the engine in a session: a plain sentence, or the last
\* tool result repeated.
SessionAnswers ==
    {PlainAnswer} \cup (IF inv.done THEN {DeliveredText(inv)} ELSE {})

\* Final answers tried on the synthesizer alone: a head, then up to MaxSegs
\* segments.
Heads == {<<>>, CreatedMarker, FoundMarker, FoundOne}
Segs == {UrlTag, Url42, <<" ">>, <<"\n">>, <<"\t">>}
RECURSIVE SegSeqs(_)
SegSeqs(n) ==
    IF n = 0 THEN {<<>>}
    ELSE LET p == SegSeqs(n - 1) IN p \cup {s \o g : s \in p, g \in Segs}
SynthAnswers == {h \o t : h \in Heads, t \in SegSeqs(MaxSegs)}

---------------------------------------------------------------------------
(* The state machine. *)

Init ==
    /\ req \in Requests
    /\ pc = "start"
    /\ resp = NoResp
    /\ runId = <<>>
    /\ finalOutput = <<>>
    /\ inv = NoInv
    /\ gw = NoGw
    /\ cancelled = FALSE
    /\ fault = "none"
    /\ engineRuns = 0
    /\ nInvocations = 0
    /\ nSearchCalls = 0
    /\ nCreateCalls = 0
    /\ nSearchTyped = 0
    /\ nCreateTyped = 0
    /\ nGatewayErrors = 0
    /\ firstTool = "none"
    /\ searchMatched = FALSE
    /\ createAfterMatch = FALSE

\* handleProcessError from its entry to the call of llmPipeline.Run: a 400
\* for a body that does not decode or an empty error log; otherwise the run
\* id is cut from the log, which panics on a log shorter than RunIdLen bytes
\* (net/http recovers the panic and closes the connection: no response).
DecodeRequest ==
    /\ pc = "start"
    /\ IF ~RequestAccepted(req)
       THEN /\ resp' = ErrorResponse(StatusBadRequest,
                         IF req.ok THEN "Error log cannot be empty"
                                   ELSE "Invalid request body")
            /\ pc' = "finished"
            /\ UNCHANGED <<runId, fault>>
       ELSE IF SlicePanics(req.ErrorLog, RunIdLen)
       THEN /\ pc' = "faulted"
            /\ fault' = "slice"
            /\ UNCHANGED <<resp, runId>>
       ELSE /\ pc' = "reasoning"
            /\ runId' = RunIdOf(req.ErrorLog)
            /\ UNCHANGED <<resp, fault>>
    /\ UNCHANGED <<req, finalOutput, inv, gw, cancelled, engineRuns, nInvocations,
                   nSearchCalls, nCreateCalls, nSearchTyped, nCreateTyped, nGatewayErrors,
                   firstTool, searchMatched, createAfterMatch>>

\* The engine asks for search_github_issues(args); the executor runs up to
\* its call of ghClient.Search.Issues, or returns at once with an error.
CallSearch(args) ==
    /\ pc = "reasoning"
    /\ nInvocations < MaxCycles
    /\ engineRuns' = engineRuns + 1
    /\ nInvocations' = nInvocations + 1
    /\ firstTool' = IF firstTool = "none" THEN "search_github_issues" ELSE firstTool
    /\ nSearchTyped' = nSearchTyped + (IF args.query.t = "string" THEN 1 ELSE 0)
    /\ LET c == searchGithubIssuesCheck(args)
       IN  IF ~c.ok
           THEN /\ inv' = [NoInv EXCEPT !.tool = "search_github_issues", !.args = args,
                                        !.done = TRUE, !.err = c.err]
                /\ UNCHANGED <<pc, gw, nSearchCalls>>
           ELSE /\ inv' = [NoInv EXCEPT !.tool = "search_github_issues", !.args = args,
                                        !.gwCalled = TRUE]
                /\ gw' = [NoGw EXCEPT !.op = "search", !.query = c.query,
                                      !.ctx = ExecutorContext,
                                      !.afterCancel = cancelled]
                /\ nSearchCalls' = nSearchCalls + 1
                /\ pc' = "gateway"
    /\ UNCHANGED <<req, resp, runId, finalOutput, cancelled, fault, nCreateCalls,
                   nCreateTyped, nGatewayErrors, searchMatched, createAfterMatch>>

\* ghClient.Search.Issues returns and the executor builds its result; a
\* call whose context is done returns the context's error.
SearchReturns(res) ==
    /\ pc = "gateway"
    /\ gw.op = "search"
    /\ CtxDone(gw.ctx, cancelled) => res = GwErr
    /\ LET r == searchGithubIssuesResult(res)
       IN  IF r.panic
           THEN /\ pc' = "faulted"
                /\ fault' = "nilderef"
                /\ inv' = [inv EXCEPT !.issues = res.issues]
           ELSE /\ pc' = "reasoning"
                /\ inv' = [inv EXCEPT !.done = TRUE, !.text = r.text, !.err = r.err,
                                      !.issues = res.issues]
                /\ UNCHANGED fault
    /\ gw' = NoGw
    /\ nGatewayErrors' = nGatewayErrors + (IF res.err.nil THEN 0 ELSE 1)
    /\ searchMatched' = (searchMatched \/ (res.err.nil /\ res.issues # <<>>))
    /\ UNCHANGED <<req, resp, runId, finalOutput, cancelled, engineRuns, nInvocations,
                   nSearchCalls, nCreateCalls, nSearchTyped, nCreateTyped, firstTool,
                   createAfterMatch>>

\* The engine asks for create_github_issue(args); the executor runs up to
\* its call of ghClient.Issues.Create, or returns at once with an error.
CallCreate(args) ==
    /\ pc = "reasoning"
    /\ nInvocations < MaxCycles
    /\ engineRuns' = engineRuns + 1
    /\ nInvocations' = nInvocations + 1
    /\ firstTool' = IF firstTool = "none" THEN "create_github_issue" ELSE firstTool
    /\ nCreateTyped' = nCreateTyped +
          (IF args.title.t = "string" /\ args.body.t = "string" THEN 1 ELSE 0)
    /\ LET c == createGithubIssuesCheck(args)
       IN  IF ~c.ok
           THEN /\ inv' = [NoInv EXCEPT !.tool = "create_github_issue", !.args = args,
                                        !.done = TRUE, !.err = c.err]
                /\ UNCHANGED <<pc, gw, nCreateCalls, createAfterMatch>>
           ELSE /\ inv' = [NoInv EXCEPT !.tool = "create_github_issue", !.args = args,
                                        !.gwCalled = TRUE]
                /\ gw' = [NoGw EXCEPT !.op = "create", !.title = c.title,
                                      !.body = c.body, !.labels = c.labels,
                                      !.ctx = ExecutorContext,
                                      !.afterCancel = cancelled]
                /\ nCreateCalls' = nCreateCalls + 1
                /\ createAfterMatch' = (createAfterMatch \/ searchMatched)
                /\ pc' = "gateway"
    /\ UNCHANGED <<req, resp, runId, finalOutput, cancelled, fault, nSearchCalls,
                   nSearchTyped, nGatewayErrors, searchMatched>>

\* ghClient.Issues.Create returns and the executor builds its result.
CreateReturns(res) ==
    /\ pc = "gateway"
    /\ gw.op = "create"
    /\ CtxDone(gw.ctx, cancelled) => res = GwErr
    /\ LET r == createGithubIssuesResult(res)
       IN  IF r.panic
           THEN /\ pc' = "faulted"
                /\ fault' = "nilderef"
                /\ inv' = [inv EXCEPT !.issues = res.issues]
           ELSE /\ pc' = "reasoning"
                /\ inv' = [inv EXCEPT !.done = TRUE, !.text = r.text, !.err = r.err,
                                      !.issues = res.issues]
                /\ UNCHANGED fault
    /\ gw' = NoGw
    /\ nGatewayErrors' = nGatewayErrors + (IF res.err.nil THEN 0 ELSE 1)
    /\ UNCHANGED <<req, resp, runId, finalOutput, cancelled, engineRuns, nInvocations,
                   nSearchCalls, nCreateCalls, nSearchTyped, nCreateTyped, firstTool,
                   searchMatched, createAfterMatch>>

\* llmPipeline.Run returns the final output with a nil error, and the
\* handler encodes the APIResponse.
RunReturns(out) ==
    /\ pc = "reasoning"
    /\ engineRuns' = engineRuns + 1
    /\ finalOutput' = out
    /\ resp' = SuccessResponse(out)
    /\ pc' = "finished"
    /\ UNCHANGED <<req, runId, inv, gw, cancelled, fault, nInvocations, nSearchCalls,
                   nCreateCalls, nSearchTyped, nCreateTyped, nGatewayErrors, firstTool,
                   searchMatched, createAfterMatch>>

\* The engine gives its final answer.
EngineFinalAnswer == \E a \in SessionAnswers : RunReturns(a)

\* llmPipeline.Run returns an error: the handler answers 500.
EngineError ==
    /\ pc = "reasoning"
    /\ engineRuns' = engineRuns + 1
    /\ resp' = ErrorResponse(StatusInternalServerError, "Agent failed to process error")
    /\ pc' = "finished"
    /\ UNCHANGED <<req, runId, finalOutput, inv, gw, cancelled, fault, nInvocations,
                   nSearchCalls, nCreateCalls, nSearchTyped, nCreateTyped, nGatewayErrors,
                   firstTool, searchMatched, createAfterMatch>>

\* The client goes away while the session runs: r.Context() is cancelled.
Cancel ==
    /\ pc \in {"reasoning", "gateway"}
    /\ ~cancelled
    /\ cancelled' = TRUE
    /\ UNCHANGED <<req, pc, resp, runId, finalOutput, inv, gw, fault, engineRuns,
                   nInvocations, nSearchCalls, nCreateCalls, nSearchTyped, nCreateTyped,
                   nGatewayErrors, firstTool, searchMatched, createAfterMatch>>

Next ==
    \/ DecodeRequest
    \/ \E a \in SearchArgs : CallSearch(a)
    \/ \E r \in SearchAnswers : SearchReturns(r)
    \/ \E a \in CreateArgs : CallCreate(a)
    \/ \E r \in CreateAnswers(gw.title) : CreateReturns(r)
    \/ EngineFinalAnswer
    \/ EngineError
    \/ Cancel

Spec == Init /\ [][Next]_vars

(* The synthesizer alone: the session of an accepted request is in the     *)
(* engine's hands, and the engine's final answer is any of SynthAnswers.   *)
SynthInit ==
    /\ req \in {r \in Requests : RequestAccepted(r) /\ ~SlicePanics(r.ErrorLog, RunIdLen)}
    /\ pc = "reasoning"
    /\ resp = NoResp
    /\ runId = RunIdOf(req.ErrorLog)
    /\ finalOutput = <<>>
    /\ inv = NoInv
    /\ gw = NoGw
    /\ cancelled = FALSE
    /\ fault = "none"
    /\ engineRuns = 0
    /\ nInvocations = 0
    /\ nSearchCalls = 0
    /\ nCreateCalls = 0
    /\ nSearchTyped = 0
    /\ nCreateTyped = 0
    /\ nGatewayErrors = 0
    /\ firstTool = "none"
    /\ searchMatched = FALSE
    /\ createAfterMatch = FALSE

SynthAnswer == \E a \in SynthAnswers : RunReturns(a)

SynthSpec == SynthInit /\ [][SynthAnswer]_vars

---------------------------------------------------------------------------
(* The claims. *)

\* Statements of the text operations used by the claims, written apart from
\* the program's own scan.
Occurs(s, tag) ==
    \E i \in 1..(Len(s) - Len(tag) + 1) : SubSeq(s, i, i + Len(tag) - 1) = tag
AfterFirst(s, tag) ==
    LET i == CHOOSE k \in 1..(Len(s) - Len(tag) + 1) :
                 /\ SubSeq(s, k, k + Len(tag) - 1) = tag
                 /\ \A j \in 1..(k - 1) : SubSeq(s, j, j + Len(tag) - 1) # tag
    IN  SubSeq(s, i + Len(tag), Len(s))
RECURSIVE TakeUntil(_, _)
TakeUntil(s, stops) ==
    IF s = <<>> \/ Head(s) \in stops THEN <<>>
    ELSE <<Head(s)>> \o TakeUntil(Tail(s), stops)
RECURSIVE StripLeft(_)
StripLeft(s) ==
    IF s # <<>> /\ Head(s) \in WhiteSpace THEN StripLeft(Tail(s)) ELSE s
RECURSIVE StripRight(_)
StripRight(s) ==
    IF s # <<>> /\ s[Len(s)] \in WhiteSpace THEN StripRight(SubSeq(s, 1, Len(s) - 1))
    ELSE s
HasPrefix(s, p) == Len(s) >= Len(p) /\ SubSeq(s, 1, Len(p)) = p
HasMarkerAndUrl(out) ==
    (Occurs(out, CreatedMarker) \/ Occurs(out, FoundMarker)) /\ Occurs(out, UrlTag)
EmptyString(v) == v.t = "string" /\ v.s = <<>>

\* C1: every request whose error_log is non-empty, of any length, ends with
\* exactly one response, 200 or 500, and never with a fault. (The faults of
\* an executor on a gateway answer are left out: they are C9's.)
C1_NonEmptyLogAnswered ==
    (req.ok /\ req.ErrorLog # <<>> /\ fault # "nilderef") =>
        /\ pc # "faulted"
        /\ (pc = "finished" => resp.code \in {StatusOK, StatusInternalServerError})

\* C2 as stated: a create_github_issue invocation whose title (or body) is
\* present but empty returns an argument error and does not call the gateway.
C2_EmptyTitleOrBodyRejected ==
    (/\ inv.tool = "create_github_issue"
     /\ (EmptyString(inv.args.title) \/ EmptyString(inv.args.body)))
        => (~inv.gwCalled /\ inv.done /\ ~inv.err.nil)

\* C2 as amended: a create_github_issue invocation whose title (or body) is
\* missing or not a string returns an argument error, with no text, and does
\* not call the gateway; every other invocation, a present but empty title or
\* body included, calls the gateway's create with the title and body given.
C2_UntypedTitleOrBodyRejected ==
    inv.tool = "create_github_issue" =>
        IF inv.args.title.t # "string" \/ inv.args.body.t # "string"
        THEN /\ ~inv.gwCalled
             /\ inv.done
             /\ ~inv.err.nil
             /\ inv.text = <<>>
             /\ gw = NoGw
        ELSE /\ inv.gwCalled
             /\ gw.op = "create" =>
                   (gw.title = inv.args.title.s /\ gw.body = inv.args.body.s)

\* A create invocation without a title that returned its argument error.
C2_Witness ==
    /\ inv.tool = "create_github_issue"
    /\ inv.args.title.t = "absent"
    /\ inv.done
    /\ ~inv.err.nil
    /\ nCreateCalls = 0

\* C3: the labels of every gateway create call are among the enumerated
\* labels "bug", "llm created" and "enhancement".
C3_GatewayLabelsWithinEnum ==
    gw.op = "create" =>
        \A i \in 1..Len(gw.labels) : gw.labels[i] \in EnumLabels

\* C4: when the search returned N >= 1 matches and the final answer is the
\* search tool's result text, the response is a success whose message begins
\* "Found N existing issues:" and whose issue_url is the first match's URL.
C4_SearchAnswerGivesFirstUrl ==
    (/\ pc = "finished"
     /\ resp.code = StatusOK
     /\ inv.tool = "search_github_issues"
     /\ inv.done
     /\ inv.err.nil
     /\ inv.issues # <<>>
     /\ finalOutput = inv.text)
        => /\ resp.Status = "success"
           /\ HasPrefix(resp.Message,
                        FoundPrefix \o Itoa(Len(inv.issues)) \o SubSeq(FoundSuffix, 1, Len(FoundSuffix) - 1))
           /\ resp.IssueURL = inv.issues[1].HTMLURL.v

\* C5 as stated: with a marker and "URL: " in the final answer, issue_url is
\* the characters after the first "URL: " up to the next white space of any
\* kind or the end, and holds no white space; otherwise it is absent; the
\* message is the final answer.
C5_UrlRunToAnyWhiteSpace ==
    (pc = "finished" /\ resp.code = StatusOK) =>
        /\ resp.Message = finalOutput
        /\ IF HasMarkerAndUrl(finalOutput)
           THEN /\ resp.IssueURL = TakeUntil(AfterFirst(finalOutput, UrlTag), WhiteSpace)
                /\ \A i \in 1..Len(resp.IssueURL) : resp.IssueURL[i] \notin WhiteSpace
           ELSE resp.IssueURL = <<>>

\* C5 as amended: with a marker and "URL: " in the final answer, issue_url is
\* the characters after the first "URL: " up to the next space or newline or
\* the end, with the white space at its two ends trimmed (absent when nothing
\* is left); it holds no space and no newline and neither begins nor ends
\* with white space. Otherwise it is absent. The message is the final answer.
C5_UrlRunToSpaceOrNewline ==
    (pc = "finished" /\ resp.code = StatusOK) =>
        /\ resp.Message = finalOutput
        /\ IF HasMarkerAndUrl(finalOutput)
           THEN /\ resp.IssueURL =
                     StripRight(StripLeft(TakeUntil(AfterFirst(finalOutput, UrlTag),
                                                    {" ", "\n"})))
                /\ \A i \in 1..Len(resp.IssueURL) : resp.IssueURL[i] \notin {" ", "\n"}
                /\ resp.IssueURL # <<>> =>
                      /\ resp.IssueURL[1] \notin WhiteSpace
                      /\ resp.IssueURL[Len(resp.IssueURL)] \notin WhiteSpace
           ELSE resp.IssueURL = <<>>

\* A final answer with the "Found existing issues:" marker whose URL is
\* followed by a tab: the issue_url answered holds the tab.
C5_Witness ==
    /\ pc = "finished"
    /\ Occurs(finalOutput, FoundMarker)
    /\ HasPrefix(resp.IssueURL, Url42)
    /\ \E i \in 1..Len(resp.IssueURL) : resp.IssueURL[i] = "\t"

C7_NoCreateAfterMatch ==
    firstTool = "search_github_issues" => ~createAfterMatch

\* C8: every create invocation whose title and body are strings starts
\* exactly one gateway create call and no other does, likewise every search
\* invocation whose query is a string, and an invocation starts at most one
\* gateway call: nothing is retried and nothing is deduplicated.
C8_OneGatewayCallPerInvocation ==
    /\ nCreateCalls = nCreateTyped
    /\ nSearchCalls = nSearchTyped
    /\ nSearchCalls + nCreateCalls <= nInvocations
    /\ gw.op # "none" => (inv.gwCalled /\ ~inv.done)

\* Two create invocations reached the gateway although the first call
\* failed: the second call comes from the engine's second invocation, not
\* from a retry.
C8_Witness ==
    /\ nCreateCalls = 2
    /\ nInvocations = 2
    /\ nGatewayErrors = 1
    /\ gw.op = "create"

\* C9: no failure of an executor faults the session, and every failure gives
\* the engine a non-empty text.
C9_ExecutorFailuresReturnText ==
    /\ fault # "nilderef"
    /\ (inv.done /\ ~inv.err.nil) => DeliveredText(inv) # <<>>

\* C10: once the request is cancelled, an outstanding gateway call is
\* aborted (its context is done) and no gateway create call is started.
C10_CancellationReachesToolCalls ==
    /\ (cancelled /\ gw.op # "none") => CtxDone(gw.ctx, cancelled)
    /\ ~(gw.op = "create" /\ gw.afterCancel)

=============================================================================
